---- MODULE Spec2Model ----
(***************************************************************************)
(* Model of CORDISPlotter.plot_collaboration_network (collaboration        *)
(* network notebook): the filter engine over the project and organization  *)
(* tables, the collaboration aggregator (drop_duplicates, groupby, the     *)
(* min_participants cut, head(max_projects), combinations, Counter,        *)
(* nx.Graph) and the layout / rendering tail.                              *)
(*                                                                         *)
(* One call is a sequence of steps; pc is the position in the function     *)
(* body.  A pandas DataFrame is a record [columns, rows]; a cell is a      *)
(* tagged value (string / number / NaN); a Python string that is searched  *)
(* with `in` or str.contains is a sequence of characters.                  *)
(***************************************************************************)
EXTENDS Integers, Sequences, FiniteSets, TLC

(***************************************************************************)
(* Bounds of the model                                                     *)
(***************************************************************************)
\* most organization rows in the aggregation inputs
MaxRows == 4
\* most organization rows in the filter inputs
MaxOrgRows == 1
\* most filter criteria given in one call of the filter inputs
MaxActive == 2

(***************************************************************************)
(* Cell values                                                             *)
(***************************************************************************)
Str(s) == [t |-> "str", s |-> s, n |-> 0]
Num(n) == [t |-> "num", s |-> <<>>, n |-> n]
NaN == [t |-> "nan", s |-> <<>>, n |-> 0]

\* Python `pat in s` on strings
Contains(pat, s) ==
    \E i \in 0..(Len(s) - Len(pat)) : SubSeq(s, i + 1, i + Len(pat)) = pat

Digit(d) == <<"0", "1", "2", "3", "4", "5", "6", "7", "8", "9">>[d + 1]

RECURSIVE NumToStr(_)
\* str() of a non-negative integer
NumToStr(n) == IF n < 10 THEN <<Digit(n)>> ELSE NumToStr(n \div 10) \o <<Digit(n % 10)>>

\* Series.astype(str) on one cell: NaN becomes the text 'nan'
AsStr(v) ==
    CASE v.t = "str" -> v.s
      [] v.t = "num" -> NumToStr(v.n)
      [] OTHER -> <<"n", "a", "n">>

IsDigit(c) == c \in {"0", "1", "2", "3", "4", "5", "6", "7", "8", "9"}

DigitVal(c) == CHOOSE d \in 0..9 : Digit(d) = c

RECURSIVE StrToNum(_)
StrToNum(s) ==
    IF Len(s) = 0 THEN 0
    ELSE 10 * StrToNum(SubSeq(s, 1, Len(s) - 1)) + DigitVal(s[Len(s)])

\* float() accepts a digit string and the text 'nan'; anything else is a ValueError
Parseable(v) ==
    \/ v.t \in {"num", "nan"}
    \/ v.t = "str" /\ Len(v.s) > 0 /\ \A i \in 1..Len(v.s) : IsDigit(v.s[i])
    \/ v.t = "str" /\ v.s = <<"n", "a", "n">>

\* Series.astype(float) on one parseable cell
AsFloat(v) ==
    CASE v.t = "num" -> v
      [] v.t = "str" /\ v.s # <<"n", "a", "n">> -> Num(StrToNum(v.s))
      [] OTHER -> NaN

\* x >= threshold on floats: a comparison with NaN is False
GreaterEq(v, threshold) == v.t = "num" /\ v.n >= threshold

(***************************************************************************)
(* DataFrames                                                              *)
(***************************************************************************)
ProjColumns == {"projectID", "sci_voc_titles", "fundingScheme"}
OrgColumns == {"projectID", "name", "activityType", "country", "discipline",
               "startDate", "contribution"}

DataFrame(cols, rows) == [columns |-> cols, rows |-> rows]

\* mutant: a column is never missing
HasColumnAlways(df, col) == TRUE

\* df[col] raises KeyError when the column is absent
HasColumn(df, col) == col \in df.columns

RECURSIVE MaskRows(_, _)
\* the rows at the positions where the mask holds
MaskRows(rows, mask) ==
    IF rows = <<>> THEN <<>>
    ELSE LET front == MaskRows(SubSeq(rows, 1, Len(rows) - 1), mask)
         IN IF mask[Len(rows)] THEN Append(front, rows[Len(rows)]) ELSE front

\* df[mask] with a boolean Series (isin, str.contains, a comparison)
BoolMask(df, mask) == [df EXCEPT !.rows = MaskRows(df.rows, mask)]

\* df[df[col].apply(f)]: on an empty frame apply() never calls f and returns
\* an empty non-boolean Series, which df[...] takes as an empty list of
\* column labels: the result has no columns
ApplyMask(df, mask) ==
    IF Len(mask) = 0 THEN DataFrame({}, <<>>) ELSE BoolMask(df, mask)

\* df[col].unique() as a set
Unique(df) == {df.rows[i].projectID : i \in 1..Len(df.rows)}

(***************************************************************************)
(* Collaboration aggregator helpers                                        *)
(***************************************************************************)
\* df_org[['projectID', 'name']]
PairOf(r) == [projectID |-> r.projectID, name |-> r.name]

ProjectPairs(rows) == [i \in 1..Len(rows) |-> PairOf(rows[i])]

\* mutant: no deduplication, every row is kept
KeepAllRows(rows) == rows

RECURSIVE DropAdjacentDuplicates(_)
\* mutant: only a row equal to its predecessor is dropped
DropAdjacentDuplicates(rows) ==
    IF Len(rows) < 2 THEN rows
    ELSE LET front == DropAdjacentDuplicates(SubSeq(rows, 1, Len(rows) - 1))
             last == rows[Len(rows)]
         IN IF rows[Len(rows) - 1] = last THEN front ELSE Append(front, last)

RECURSIVE DropDuplicates(_)
\* DataFrame.drop_duplicates(): the first occurrence of every row is kept
DropDuplicates(rows) ==
    IF rows = <<>> THEN <<>>
    ELSE LET front == DropDuplicates(SubSeq(rows, 1, Len(rows) - 1))
             last == rows[Len(rows)]
         IN IF \E i \in 1..Len(front) : front[i] = last
            THEN front
            ELSE Append(front, last)

RECURSIVE SortedSeq(_)
\* the group keys of groupby(sort=True), ascending
SortedSeq(S) ==
    IF S = {} THEN <<>>
    ELSE LET m == CHOOSE x \in S : \A y \in S : x <= y
         IN <<m>> \o SortedSeq(S \ {m})

\* ['name'].apply(list) of one group: the names in row order
NamesOf(rows, p) ==
    LET sel == SelectSeq(rows, LAMBDA r : r.projectID = p)
    IN [i \in 1..Len(sel) |-> sel[i].name]

\* df_org.groupby('projectID')['name'].apply(list).reset_index()
GroupBy(rows) ==
    LET keys == SortedSeq({rows[i].projectID : i \in 1..Len(rows)})
    IN [i \in 1..Len(keys) |-> [projectID |-> keys[i], name |-> NamesOf(rows, keys[i])]]

\* mutant: the truncated frame is not kept
HeadRowsAll(rows, n) == rows

\* DataFrame.head(n): the first n rows, for n < 0 all rows but the last -n
HeadRows(rows, n) ==
    IF n >= 0
    THEN SubSeq(rows, 1, IF n < Len(rows) THEN n ELSE Len(rows))
    ELSE SubSeq(rows, 1, Len(rows) + n)

\* mutant: itertools.permutations(names, 2), both orientations of every pair
Permutations2(names) ==
    LET n == Len(names)
        idx == SelectSeq([k \in 1..(n * n) |-> <<((k - 1) \div n) + 1, ((k - 1) % n) + 1>>],
                         LAMBDA ij : ij[1] # ij[2])
    IN [k \in 1..Len(idx) |-> <<names[idx[k][1]], names[idx[k][2]]>>]

RECURSIVE Combinations2(_)
\* itertools.combinations(names, 2): position pairs i < j, in lexicographic order
Combinations2(names) ==
    IF Len(names) < 2 THEN <<>>
    ELSE [j \in 1..(Len(names) - 1) |-> <<names[1], names[j + 1]>>]
         \o Combinations2(Tail(names))

RECURSIVE EdgeList(_)
\* the loop `for names in collab_df['name']: edge_list.extend(...)`
EdgeList(rows) ==
    IF rows = <<>> THEN <<>>
    ELSE Combinations2(rows[1].name) \o EdgeList(Tail(rows))

RECURSIVE Counter(_)
\* collections.Counter(edge_list): keys in order of first occurrence; the key
\* is the ordered tuple, so (u, v) and (v, u) are two keys
Counter(edges) ==
    IF edges = <<>> THEN <<>>
    ELSE LET front == Counter(SubSeq(edges, 1, Len(edges) - 1))
             last == edges[Len(edges)]
         IN IF \E i \in 1..Len(front) : front[i].key = last
            THEN [i \in 1..Len(front) |->
                    IF front[i].key = last
                    THEN [front[i] EXCEPT !.count = @ + 1]
                    ELSE front[i]]
            ELSE Append(front, [key |-> last, count |-> 1])

EmptyGraph == [nodes |-> <<>>, weight |-> <<>>]

AddNode(nodes, u) ==
    IF \E i \in 1..Len(nodes) : nodes[i] = u THEN nodes ELSE Append(nodes, u)

\* nx.Graph.add_edge(u, v, weight=w): the graph is undirected, one attribute
\* dictionary per unordered pair, and a second add_edge overwrites weight
AddEdge(g, u, v, w) ==
    [nodes |-> AddNode(AddNode(g.nodes, u), v),
     weight |-> [e \in DOMAIN g.weight \cup {{u, v}} |->
                    IF e = {u, v} THEN w ELSE g.weight[e]]]

RECURSIVE BuildGraph(_)
\* the loop `for (u, v), weight in edge_counts.items(): G.add_edge(...)`
BuildGraph(counts) ==
    IF counts = <<>> THEN EmptyGraph
    ELSE LET last == counts[Len(counts)]
         IN AddEdge(BuildGraph(SubSeq(counts, 1, Len(counts) - 1)),
                    last.key[1], last.key[2], last.count)

(***************************************************************************)
(* Arguments of a call                                                     *)
(***************************************************************************)
\* an optional argument: None, or a value
None == [some |-> FALSE, v |-> <<>>]
Some(x) == [some |-> TRUE, v |-> x]
NoNumber == [some |-> FALSE, v |-> 0]

\* `if arg:` on a string or list argument: None and the empty value are falsy
Truthy(arg) == arg.some /\ arg.v # <<>>

\* `if contribution:` on a number: None and 0 are falsy
TruthyNumber(arg) == arg.some /\ arg.v # 0

\* list.__contains__ / Series.isin(list)
IsIn(x, list) == \E i \in 1..Len(list) : list[i] = x

\* default of max_projects in the signature
DefaultMaxProjects == 1000
\* default of min_participants in the signature
DefaultMinParticipants == 2

HES == <<"H", "E", "S">>
REC == <<"R", "E", "C">>
PUB == <<"P", "U", "B">>
PRC == <<"P", "R", "C">>
SME == <<"S", "M", "E">>

\* the list assigned when org_types is None
DefaultOrgTypes == <<HES, REC, PUB, PRC, SME>>

(***************************************************************************)
(* Filter engine: every filter maps the pair of working tables to the      *)
(* narrowed pair, or to the exception it raises                            *)
(***************************************************************************)
Frames(proj, org) == [proj |-> proj, org |-> org, exc |-> "none"]

Raise(st, e) == [st EXCEPT !.exc = e]

\* df_org = df_org[df_org['projectID'].isin(df_proj['projectID'].unique())]
JoinOnProjects(st) ==
    IF ~HasColumn(st.proj, "projectID") \/ ~HasColumn(st.org, "projectID")
    THEN Raise(st, "KeyError")
    ELSE [st EXCEPT !.org = BoolMask(st.org,
            [k \in 1..Len(st.org.rows) |->
                st.org.rows[k].projectID \in Unique(st.proj)])]

\* if field_filter: ...
FilterField(field_filter, st) ==
    IF st.exc # "none" \/ ~Truthy(field_filter) THEN st
    ELSE IF ~HasColumn(st.proj, "sci_voc_titles") THEN Raise(st, "KeyError")
    ELSE JoinOnProjects([st EXCEPT !.proj =
            ApplyMask(st.proj,
                [k \in 1..Len(st.proj.rows) |->
                    /\ st.proj.rows[k].sci_voc_titles.t = "str"
                    /\ Contains(field_filter.v, st.proj.rows[k].sci_voc_titles.s)])])

\* if org_types: ...
FilterOrgTypes(types, st) ==
    IF st.exc # "none" \/ types = <<>> THEN st
    ELSE IF ~HasColumn(st.org, "activityType") THEN Raise(st, "KeyError")
    ELSE [st EXCEPT !.org = BoolMask(st.org,
            [k \in 1..Len(st.org.rows) |->
                IsIn(AsStr(st.org.rows[k].activityType), types)])]

\* if countries: ...
FilterCountries(countries, st) ==
    IF st.exc # "none" \/ ~Truthy(countries) THEN st
    ELSE IF ~HasColumn(st.org, "country") THEN Raise(st, "KeyError")
    ELSE [st EXCEPT !.org = BoolMask(st.org,
            [k \in 1..Len(st.org.rows) |->
                IsIn(AsStr(st.org.rows[k].country), countries.v)])]

RECURSIVE DisciplineLoop(_, _)
\* for discipline in disciplines: ...
DisciplineLoop(list, st) ==
    IF st.exc # "none" \/ list = <<>> THEN st
    ELSE IF ~HasColumn(st.org, "discipline") THEN Raise(st, "KeyError")
    ELSE DisciplineLoop(Tail(list),
            [st EXCEPT !.org = BoolMask(st.org,
            [k \in 1..Len(st.org.rows) |->
                Contains(list[1], AsStr(st.org.rows[k].discipline))])])

\* if disciplines: ...
FilterDisciplines(disciplines, st) ==
    IF ~Truthy(disciplines) THEN st ELSE DisciplineLoop(disciplines.v, st)

\* if year: ...
FilterYear(year, st) ==
    IF st.exc # "none" \/ ~Truthy(year) THEN st
    ELSE IF ~HasColumn(st.org, "startDate") THEN Raise(st, "KeyError")
    ELSE [st EXCEPT !.org = BoolMask(st.org,
            [k \in 1..Len(st.org.rows) |->
                Contains(year.v, AsStr(st.org.rows[k].startDate))])]

\* if contribution: ...   astype(float) converts the whole column first
FilterContribution(contribution, st) ==
    IF st.exc # "none" \/ ~TruthyNumber(contribution) THEN st
    ELSE IF ~HasColumn(st.org, "contribution") THEN Raise(st, "KeyError")
    ELSE IF \E i \in 1..Len(st.org.rows) : ~Parseable(st.org.rows[i].contribution)
    THEN Raise(st, "ValueError")
    ELSE [st EXCEPT !.org = BoolMask(st.org,
            [k \in 1..Len(st.org.rows) |->
                GreaterEq(AsFloat(st.org.rows[k].contribution), contribution.v)])]

\* mutant: one mask that keeps a project whose fundingScheme contains any value
ProjectTypeAny(list, st) ==
    IF st.exc # "none" \/ list = <<>> THEN st
    ELSE IF ~HasColumn(st.proj, "fundingScheme") THEN Raise(st, "KeyError")
    ELSE JoinOnProjects([st EXCEPT !.proj =
            ApplyMask(st.proj,
                [k \in 1..Len(st.proj.rows) |->
                    /\ st.proj.rows[k].fundingScheme.t = "str"
                    /\ \E i \in 1..Len(list) :
                          Contains(list[i], st.proj.rows[k].fundingScheme.s)])])

RECURSIVE ProjectTypeLoop(_, _)
\* for call in project_type: ...
ProjectTypeLoop(list, st) ==
    IF st.exc # "none" \/ list = <<>> THEN st
    ELSE IF ~HasColumn(st.proj, "fundingScheme") THEN Raise(st, "KeyError")
    ELSE ProjectTypeLoop(Tail(list),
            JoinOnProjects([st EXCEPT !.proj =
                ApplyMask(st.proj,
                    [k \in 1..Len(st.proj.rows) |->
                        /\ st.proj.rows[k].fundingScheme.t = "str"
                        /\ Contains(list[1], st.proj.rows[k].fundingScheme.s)])]))

\* if project_type: ...
FilterProjectType(project_type, st) ==
    IF ~Truthy(project_type) THEN st ELSE ProjectTypeLoop(project_type.v, st)

(***************************************************************************)
(* State                                                                   *)
(***************************************************************************)
VARIABLES
    project_df,       \* self.data.project_df, the project snapshot
    organization_df,  \* self.data.organization_df, the organization snapshot
    args,             \* the arguments of the call
    pc,               \* position in plot_collaboration_network
    df_proj,          \* local df_proj
    df_org,           \* local df_org
    org_types,        \* local org_types (the argument or the default list)
    collab_df,        \* local collab_df
    edge_list,        \* local edge_list
    edge_counts,      \* local edge_counts
    G,                \* local G
    fig,              \* local fig, once shown
    exc,              \* the exception that ended the call, "none" otherwise
    ret,              \* what the call returned, "pending" before it returns
    suspended         \* the locals of a second call on the same plotter that
                      \* is not running now, NoCall when there is none

vars == <<project_df, organization_df, args, pc, df_proj, df_org, org_types,
          collab_df, edge_list, edge_counts, G, fig, exc, ret, suspended>>

snapshot == <<project_df, organization_df, args>>

Unbound == DataFrame({}, <<>>)
NoFigure == [shown |-> FALSE, title |-> None, nodes |-> <<>>, edges |-> {}]

\* the arguments and locals of a call with arguments a that has not started
CallAt(a) ==
    [args |-> a, pc |-> "start", df_proj |-> Unbound, df_org |-> Unbound,
     org_types |-> <<>>, collab_df |-> Unbound, edge_list |-> <<>>,
     edge_counts |-> <<>>, G |-> EmptyGraph, fig |-> NoFigure, exc |-> "none",
     ret |-> "pending"]

\* the state at the call, for the given snapshot tables and arguments
InitWith(inputs) ==
    /\ project_df = inputs.project_df
    /\ organization_df = inputs.organization_df
    /\ args = inputs.args
    /\ pc = "start"
    /\ df_proj = Unbound
    /\ df_org = Unbound
    /\ org_types = <<>>
    /\ collab_df = Unbound
    /\ edge_list = <<>>
    /\ edge_counts = <<>>
    /\ G = EmptyGraph
    /\ fig = NoFigure
    /\ exc = "none"
    /\ ret = "pending"

(***************************************************************************)
(* Steps of plot_collaboration_network                                     *)
(***************************************************************************)
\* a filter step: the tables move to the filter's result, or the call raises
FilterStep(here, next, st) ==
    /\ pc = here
    /\ df_proj' = st.proj
    /\ df_org' = st.org
    /\ exc' = st.exc
    /\ pc' = IF st.exc = "none" THEN next ELSE "raised"
    /\ UNCHANGED <<snapshot, suspended, org_types, collab_df, edge_list, edge_counts, G, fig, ret>>

\* df_proj = self.data.project_df ... org_types default
Enter ==
    /\ pc = "start"
    /\ df_proj' = project_df
    /\ df_org' = organization_df
    /\ org_types' = IF args.org_types.some THEN args.org_types.v ELSE DefaultOrgTypes
    /\ pc' = "field_filter"
    /\ UNCHANGED <<snapshot, suspended, collab_df, edge_list, edge_counts, G, fig, exc, ret>>

ApplyFieldFilter ==
    FilterStep("field_filter", "org_types",
               FilterField(args.field_filter, Frames(df_proj, df_org)))

ApplyOrgTypes ==
    FilterStep("org_types", "countries",
               FilterOrgTypes(org_types, Frames(df_proj, df_org)))

ApplyCountries ==
    FilterStep("countries", "disciplines",
               FilterCountries(args.countries, Frames(df_proj, df_org)))

ApplyDisciplines ==
    FilterStep("disciplines", "year",
               FilterDisciplines(args.disciplines, Frames(df_proj, df_org)))

ApplyYear ==
    FilterStep("year", "contribution",
               FilterYear(args.year, Frames(df_proj, df_org)))

ApplyContribution ==
    FilterStep("contribution", "project_type",
               FilterContribution(args.contribution, Frames(df_proj, df_org)))

ApplyProjectType ==
    FilterStep("project_type", "drop_duplicates",
               FilterProjectType(args.project_type, Frames(df_proj, df_org)))

\* mutant: the duplicates are dropped in place, in the table df_org names
DeduplicateInPlace ==
    /\ pc = "drop_duplicates"
    /\ IF {"projectID", "name"} \subseteq df_org.columns
       THEN /\ df_org' = DataFrame({"projectID", "name"},
                                   DropDuplicates(ProjectPairs(df_org.rows)))
            /\ organization_df' =
                  IF df_org = organization_df THEN df_org' ELSE organization_df
            /\ pc' = "groupby"
            /\ exc' = exc
       ELSE /\ df_org' = df_org
            /\ organization_df' = organization_df
            /\ pc' = "raised"
            /\ exc' = "KeyError"
    /\ UNCHANGED <<project_df, args, suspended, df_proj, org_types, collab_df, edge_list,
                   edge_counts, G, fig, ret>>

\* df_org = df_org[['projectID', 'name']].drop_duplicates()
Deduplicate ==
    /\ pc = "drop_duplicates"
    /\ IF {"projectID", "name"} \subseteq df_org.columns
       THEN /\ df_org' = DataFrame({"projectID", "name"},
                                   DropDuplicates(ProjectPairs(df_org.rows)))
            /\ pc' = "groupby"
            /\ exc' = exc
       ELSE /\ df_org' = df_org
            /\ pc' = "raised"
            /\ exc' = "KeyError"
    /\ UNCHANGED <<snapshot, suspended, df_proj, org_types, collab_df, edge_list, edge_counts, G, fig, ret>>

\* collab_df = df_org.groupby('projectID')['name'].apply(list).reset_index()
Group ==
    /\ pc = "groupby"
    /\ collab_df' = DataFrame({"projectID", "name"}, GroupBy(df_org.rows))
    /\ pc' = "min_participants"
    /\ UNCHANGED <<snapshot, suspended, df_proj, df_org, org_types, edge_list, edge_counts, G, fig, exc, ret>>

\* mutant: head(max_projects) is taken before the cut
CutMinParticipantsAfterHead ==
    /\ pc = "min_participants"
    /\ collab_df' =
          LET rows == HeadRows(collab_df.rows, args.max_projects)
          IN ApplyMask([collab_df EXCEPT !.rows = rows],
                 [k \in 1..Len(rows) |-> Len(rows[k].name) >= args.min_participants])
    /\ pc' = "head"
    /\ UNCHANGED <<snapshot, suspended, df_proj, df_org, org_types, edge_list, edge_counts, G, fig, exc, ret>>

\* mutant: the cut compares with > instead of >=
CutMinParticipantsStrict ==
    /\ pc = "min_participants"
    /\ collab_df' = ApplyMask(collab_df,
            [k \in 1..Len(collab_df.rows) |->
                Len(collab_df.rows[k].name) > args.min_participants])
    /\ pc' = "head"
    /\ UNCHANGED <<snapshot, suspended, df_proj, df_org, org_types, edge_list, edge_counts, G, fig, exc, ret>>

\* collab_df = collab_df[collab_df['name'].apply(lambda x: len(x) >= min_participants)]
CutMinParticipants ==
    /\ pc = "min_participants"
    /\ collab_df' = ApplyMask(collab_df,
            [k \in 1..Len(collab_df.rows) |->
                Len(collab_df.rows[k].name) >= args.min_participants])
    /\ pc' = "head"
    /\ UNCHANGED <<snapshot, suspended, df_proj, df_org, org_types, edge_list, edge_counts, G, fig, exc, ret>>

\* collab_df = collab_df.head(max_projects)
Truncate ==
    /\ pc = "head"
    /\ collab_df' = [collab_df EXCEPT !.rows = HeadRows(@, args.max_projects)]
    /\ pc' = "edge_list"
    /\ UNCHANGED <<snapshot, suspended, df_proj, df_org, org_types, edge_list, edge_counts, G, fig, exc, ret>>

\* for names in collab_df['name']: edge_list.extend(combinations(names, 2))
BuildEdgeList ==
    /\ pc = "edge_list"
    /\ IF HasColumn(collab_df, "name")
       THEN /\ edge_list' = EdgeList(collab_df.rows)
            /\ pc' = "edge_counts"
            /\ exc' = exc
       ELSE /\ edge_list' = edge_list
            /\ pc' = "raised"
            /\ exc' = "KeyError"
    /\ UNCHANGED <<snapshot, suspended, df_proj, df_org, org_types, collab_df, edge_counts, G, fig, ret>>

\* edge_counts = Counter(edge_list)
CountEdges ==
    /\ pc = "edge_counts"
    /\ edge_counts' = Counter(edge_list)
    /\ pc' = "graph"
    /\ UNCHANGED <<snapshot, suspended, df_proj, df_org, org_types, collab_df, edge_list, G, fig, exc, ret>>

\* G = nx.Graph(); for (u, v), weight in edge_counts.items(): G.add_edge(...)
MakeGraph ==
    /\ pc = "graph"
    /\ G' = BuildGraph(edge_counts)
    /\ pc' = "render"
    /\ UNCHANGED <<snapshot, suspended, df_proj, df_org, org_types, collab_df, edge_list, edge_counts, fig, exc, ret>>

\* pos = nx.spring_layout(G, ...), the two traces, go.Figure(...), fig.show():
\* one point per node of G, one segment per edge of G, on an empty graph the
\* layout is the empty dictionary and both traces are empty
Render ==
    /\ pc = "render"
    /\ fig' = [shown |-> TRUE,
               title |-> IF Truthy(args.field_filter) THEN args.field_filter ELSE None,
               nodes |-> G.nodes,
               edges |-> DOMAIN G.weight]
    /\ pc' = "return"
    /\ UNCHANGED <<snapshot, suspended, df_proj, df_org, org_types, collab_df, edge_list, edge_counts, G, exc, ret>>

\* the function body ends after fig.show(): the call returns None
Return ==
    /\ pc = "return"
    /\ ret' = "None"
    /\ pc' = "done"
    /\ UNCHANGED <<snapshot, suspended, df_proj, df_org, org_types, collab_df, edge_list, edge_counts, G, fig, exc>>

Next ==
    \/ Enter
    \/ ApplyFieldFilter
    \/ ApplyOrgTypes
    \/ ApplyCountries
    \/ ApplyDisciplines
    \/ ApplyYear
    \/ ApplyContribution
    \/ ApplyProjectType
    \/ Deduplicate
    \/ Group
    \/ CutMinParticipants
    \/ Truncate
    \/ BuildEdgeList
    \/ CountEdges
    \/ MakeGraph
    \/ Render
    \/ Return

(***************************************************************************)
(* Inputs                                                                  *)
(***************************************************************************)
SeqsUpTo(S, n) == UNION {[1..k -> S] : k \in 0..n}

BE == <<"B", "E">>
FR == <<"F", "R">>
OTH == <<"O", "T", "H">>
ECO == <<"e", "c", "o">>
BIO == <<"b", "i", "o">>
ERC == <<"E", "R", "C">>
ERCS == <<"E", "R", "C", "S">>
Y21 == <<"2", "1">>
Y22 == <<"2", "2">>

\* an organization row that passes every filter of the inputs below
OrgRow(p, nm) ==
    [projectID |-> p, name |-> nm, activityType |-> Str(HES), country |-> Str(BE),
     discipline |-> Str(BIO), startDate |-> Str(Y21), contribution |-> Num(20)]

ProjRow(p) == [projectID |-> p, sci_voc_titles |-> Str(ECO), fundingScheme |-> Str(ERCS)]

NoFilters ==
    [field_filter |-> None, org_types |-> None, countries |-> None,
     disciplines |-> None, year |-> None, contribution |-> NoNumber,
     project_type |-> None,
     min_participants |-> DefaultMinParticipants, max_projects |-> DefaultMaxProjects]

\* Aggregation inputs: no filter argument; the organization rows are any
\* sequence of (project, name) participations, duplicates included
Names == {"A", "B", "C"}
ProjectIDs == {1, 2}
MinParticipantsArgs == {1, 2, 3}
MaxProjectsArgs == {-1, 0, 1, DefaultMaxProjects}

AggInput(ps, mp, mx) ==
    [project_df |-> DataFrame(ProjColumns, <<ProjRow(1), ProjRow(2)>>),
     organization_df |-> DataFrame(OrgColumns,
                            [i \in 1..Len(ps) |-> OrgRow(ps[i][1], ps[i][2])]),
     args |-> [NoFilters EXCEPT !.min_participants = mp, !.max_projects = mx]]

\* Filter inputs: at most MaxActive filter arguments are given; the cells of
\* the columns those filters read vary (matching, not matching, malformed)
Filters == {"field_filter", "org_types", "countries", "disciplines", "year",
            "contribution", "project_type"}

ActiveSets == {A \in SUBSET Filters : Cardinality(A) <= MaxActive}

ArgsFor(A) ==
    [field_filter : IF "field_filter" \in A THEN {Some(<<"e", "c">>)} ELSE {None},
     org_types : IF "org_types" \in A THEN {Some(<<REC, PUB>>), Some(<<>>)} ELSE {None},
     countries : IF "countries" \in A THEN {Some(<<BE>>)} ELSE {None},
     disciplines : IF "disciplines" \in A
                   THEN {Some(<<<<"b", "i">>, <<"i", "o">>>>), Some(<<<<"a", "n">>>>)}
                   ELSE {None},
     year : IF "year" \in A THEN {Some(Y21)} ELSE {None},
     contribution : IF "contribution" \in A THEN {Some(10), Some(0)} ELSE {NoNumber},
     project_type : IF "project_type" \in A THEN {Some(<<ERC, <<"C", "S">>>>)} ELSE {None},
     min_participants : {DefaultMinParticipants},
     max_projects : {DefaultMaxProjects}]

ProjectFilters == {"field_filter", "project_type"}

OrgRowsFor(A) ==
    [projectID : IF A \cap ProjectFilters # {} THEN {1, 2} ELSE {1},
     name : {"A"},
     activityType : IF "org_types" \in A THEN {Str(HES), Str(REC)} ELSE {Str(HES)},
     country : IF "countries" \in A THEN {Str(BE), Str(FR)} ELSE {Str(BE)},
     discipline : IF "disciplines" \in A
                  THEN {Str(BIO), Str(<<"b", "i">>), NaN}
                  ELSE {Str(BIO)},
     startDate : IF "year" \in A THEN {Str(Y21), Str(Y22), Num(21)} ELSE {Str(Y21)},
     contribution : IF "contribution" \in A
                    THEN {Num(5), Num(20), Str(<<"1", ",", "5">>), NaN}
                    ELSE {Num(20)}]

ProjRowsFor(A) ==
    [projectID : {1},
     sci_voc_titles : IF "field_filter" \in A THEN {Str(ECO), Str(BIO), NaN} ELSE {Str(ECO)},
     fundingScheme : IF "project_type" \in A THEN {Str(ERCS), Str(ERC), NaN} ELSE {Str(ERCS)}]

\* project 1 varies; project 2, when present, passes every filter
ProjTablesFor(A) ==
    IF A \cap ProjectFilters = {} THEN {<<ProjRow(1), ProjRow(2)>>}
    ELSE {<<r>> : r \in ProjRowsFor(A)} \cup {<<r, ProjRow(2)>> : r \in ProjRowsFor(A)}

\* institution names are compared for equality only, so an input stands for
\* all its renamings: the names make their first appearances in the order
\* A, B, C
NameOrder == <<"A", "B", "C">>

NameIndex(nm) == CHOOSE k \in 1..Len(NameOrder) : NameOrder[k] = nm

FirstAppearancesInOrder(ps) ==
    \A i \in 1..Len(ps) :
        NameIndex(ps[i][2]) = 1 \/ \E j \in 1..(i - 1) : NameIndex(ps[j][2]) = NameIndex(ps[i][2]) - 1

\* no second call
NoCall == [CallAt(NoFilters) EXCEPT !.pc = "absent"]

Init ==
    /\ suspended = NoCall
    /\ \E ps \in SeqsUpTo(ProjectIDs \X Names, MaxRows) :
        /\ FirstAppearancesInOrder(ps)
        /\ \E mp \in MinParticipantsArgs, mx \in MaxProjectsArgs :
              InitWith(AggInput(ps, mp, mx))

InitFilter ==
    /\ suspended = NoCall
    /\ \E A \in ActiveSets :
        \E pt \in ProjTablesFor(A), ot \in SeqsUpTo(OrgRowsFor(A), MaxOrgRows),
           a \in ArgsFor(A) :
            InitWith([project_df |-> DataFrame(ProjColumns, pt),
                      organization_df |-> DataFrame(OrgColumns, ot),
                      args |-> a])

Spec == Init /\ [][Next]_vars

SpecFilter == InitFilter /\ [][Next]_vars

\* Column inputs: each snapshot table lacks at most one of its columns; the
\* rows are well formed and the filter arguments vary as above
AtMostOne(S) == {{}} \cup {{c} : c \in S}

ColumnOrgRows == <<OrgRow(1, "A"), OrgRow(1, "B"), OrgRow(2, "A"), OrgRow(2, "B")>>

InitColumns ==
    /\ suspended = NoCall
    /\ \E A \in ActiveSets :
        \E a \in ArgsFor(A), pm \in AtMostOne(ProjColumns), om \in AtMostOne(OrgColumns) :
            InitWith([project_df |-> DataFrame(ProjColumns \ pm, <<ProjRow(1), ProjRow(2)>>),
                      organization_df |-> DataFrame(OrgColumns \ om, ColumnOrgRows),
                      args |-> a])

SpecColumns == InitColumns /\ [][Next]_vars

\* Two calls on one plotter: the same snapshot tables, two different
\* configurations, the statements of the two calls in any interleaving
Running ==
    [args |-> args, pc |-> pc, df_proj |-> df_proj, df_org |-> df_org,
     org_types |-> org_types, collab_df |-> collab_df, edge_list |-> edge_list,
     edge_counts |-> edge_counts, G |-> G, fig |-> fig, exc |-> exc, ret |-> ret]

\* the running call is suspended and the other call goes on where it stopped;
\* the locals belong to the calls, the snapshot tables to the plotter
Switch ==
    /\ suspended # NoCall
    /\ suspended' = Running
    /\ args' = suspended.args
    /\ pc' = suspended.pc
    /\ df_proj' = suspended.df_proj
    /\ df_org' = suspended.df_org
    /\ org_types' = suspended.org_types
    /\ collab_df' = suspended.collab_df
    /\ edge_list' = suspended.edge_list
    /\ edge_counts' = suspended.edge_counts
    /\ G' = suspended.G
    /\ fig' = suspended.fig
    /\ exc' = suspended.exc
    /\ ret' = suspended.ret
    /\ UNCHANGED <<project_df, organization_df>>

Configurations ==
    {NoFilters,
     [NoFilters EXCEPT !.min_participants = 3],
     [NoFilters EXCEPT !.max_projects = 1],
     [NoFilters EXCEPT !.countries = Some(<<BE>>)],
     [NoFilters EXCEPT !.countries = Some(<<FR>>)],
     [NoFilters EXCEPT !.org_types = Some(<<REC>>)]}

SharedOrgTables ==
    {ColumnOrgRows,
     <<OrgRow(1, "A"), OrgRow(1, "B"), OrgRow(1, "C"),
       [OrgRow(2, "B") EXCEPT !.country = Str(FR)],
       [OrgRow(2, "C") EXCEPT !.country = Str(FR)],
       OrgRow(2, "A"), OrgRow(1, "A")>>}

InitInterleaved ==
    \E ot \in SharedOrgTables, a1 \in Configurations, a2 \in Configurations :
        /\ a1 # a2
        /\ suspended = CallAt(a2)
        /\ InitWith([project_df |-> DataFrame(ProjColumns, <<ProjRow(1), ProjRow(2)>>),
                     organization_df |-> DataFrame(OrgColumns, ot),
                     args |-> a1])

NextInterleaved == Next \/ Switch

SpecInterleaved == InitInterleaved /\ [][NextInterleaved]_vars

(***************************************************************************)
(* Vocabulary of the properties                                            *)
(***************************************************************************)
EdgeListBuilt == pc \in {"edge_counts", "graph", "render", "return", "done"}
GraphBuilt == pc \in {"render", "return", "done"}
Deduplicated == pc \in {"groupby", "min_participants", "head", "edge_list"} \/ EdgeListBuilt

SeqToSet(q) == {q[i] : i \in 1..Len(q)}

\* the distinct institution names of project p among the deduplicated pairs
DistinctNames(p) ==
    {df_org.rows[i].name : i \in {j \in 1..Len(df_org.rows) : df_org.rows[j].projectID = p}}

GroupedProjects == {df_org.rows[i].projectID : i \in 1..Len(df_org.rows)}

\* the projects that reach min_participants
Qualifying ==
    {p \in GroupedProjects : Cardinality(DistinctNames(p)) >= args.min_participants}

\* the projects head(max_projects) keeps, in ascending projectID order
KeptCount ==
    IF args.max_projects >= 0 THEN args.max_projects
    ELSE Cardinality(Qualifying) + args.max_projects

Kept == {p \in Qualifying : Cardinality({q \in Qualifying : q < p}) < KeptCount}

\* the projects in collab_df
RetainedProjects == {collab_df.rows[i].projectID : i \in 1..Len(collab_df.rows)}

\* how many rows of collab_df list both a and b
CoOccurrences(a, b) ==
    Cardinality({i \in 1..Len(collab_df.rows) :
                    {a, b} \subseteq SeqToSet(collab_df.rows[i].name)})

\* how many edge instances of edge_list join a and b, in either orientation
Instances(a, b) ==
    Cardinality({i \in 1..Len(edge_list) : {edge_list[i][1], edge_list[i][2]} = {a, b}})

RECURSIVE SumOver(_, _)
SumOver(f, S) ==
    IF S = {} THEN 0
    ELSE LET x == CHOOSE y \in S : TRUE IN f[x] + SumOver(f, S \ {x})

(***************************************************************************)
(* C1: every edge {A, B} of the graph carries as weight the number of      *)
(* retained projects that list both A and B, whatever the order of their   *)
(* rows, and a pair no retained project lists has no edge.                 *)
(* Violated: Counter keys are ordered tuples and add_edge overwrites.      *)
(***************************************************************************)
C1_WeightIsCoOccurrenceCount ==
    GraphBuilt =>
        \A a \in Names, b \in Names :
            a # b =>
                IF CoOccurrences(a, b) = 0
                THEN {a, b} \notin DOMAIN G.weight
                ELSE /\ {a, b} \in DOMAIN G.weight
                     /\ G.weight[{a, b}] = CoOccurrences(a, b)

(***************************************************************************)
(* C2: truncation precedes aggregation: the edge instances and the nodes   *)
(* come from the projects head(max_projects) keeps and from no project it  *)
(* cuts.                                                                   *)
(***************************************************************************)
C2_TruncateBeforeAggregate ==
    /\ EdgeListBuilt =>
          \A a \in Names, b \in Names :
              a # b => Instances(a, b) =
                          Cardinality({p \in Kept : {a, b} \subseteq DistinctNames(p)})
    /\ GraphBuilt =>
          /\ SeqToSet(G.nodes) \subseteq UNION {DistinctNames(p) : p \in Kept}
          /\ \A e \in DOMAIN G.weight :
                G.weight[e] <= Cardinality({p \in Kept : e \subseteq DistinctNames(p)})

C2_Witness ==
    /\ pc = "done"
    /\ args.max_projects = 1
    /\ Cardinality(Qualifying) = 2
    /\ Cardinality(Kept) = 1
    /\ DOMAIN G.weight # {}
    /\ \E p \in Qualifying \ Kept : \E e \in SUBSET DistinctNames(p) :
            Cardinality(e) = 2 /\ e \notin DOMAIN G.weight

(***************************************************************************)
(* C3: after the min_participants cut every project of collab_df has at    *)
(* least min_participants distinct institution names, and every grouped    *)
(* project that is not in collab_df at that step has fewer.                *)
(***************************************************************************)
C3_MinParticipants ==
    /\ (pc = "head" \/ pc = "edge_list" \/ EdgeListBuilt) =>
          \A p \in RetainedProjects :
              Cardinality(DistinctNames(p)) >= args.min_participants
    /\ pc = "head" =>
          \A p \in GroupedProjects \ RetainedProjects :
              Cardinality(DistinctNames(p)) < args.min_participants

C3_Witness ==
    /\ pc = "head"
    /\ RetainedProjects # {}
    /\ GroupedProjects \ RetainedProjects # {}
    /\ \E i \in 1..Len(organization_df.rows), j \in 1..Len(organization_df.rows) :
            i # j /\ organization_df.rows[i] = organization_df.rows[j]

(***************************************************************************)
(* C4: a retained project with k distinct names contributes k*(k-1)/2      *)
(* edge instances to edge_list, one per unordered pair of its names.       *)
(***************************************************************************)
C4_EdgeCountLaw ==
    EdgeListBuilt =>
        /\ Len(edge_list) =
              SumOver([p \in RetainedProjects |->
                          (Cardinality(DistinctNames(p)) * (Cardinality(DistinctNames(p)) - 1)) \div 2],
                      RetainedProjects)
        /\ \A a \in Names, b \in Names :
              a # b => Instances(a, b) = CoOccurrences(a, b)

C4_Witness ==
    /\ pc = "edge_counts"
    /\ \E p \in RetainedProjects : Cardinality(DistinctNames(p)) = 3
    /\ Len(edge_list) = 3
    /\ Len(organization_df.rows) = 4

(***************************************************************************)
(* C5: the graph has no self-loop, also when the organization table has    *)
(* duplicate (projectID, name) rows.                                       *)
(***************************************************************************)
C5_NoSelfLoops ==
    /\ EdgeListBuilt => \A i \in 1..Len(edge_list) : edge_list[i][1] # edge_list[i][2]
    /\ GraphBuilt => \A e \in DOMAIN G.weight : Cardinality(e) = 2

C5_Witness ==
    /\ pc = "done"
    /\ DOMAIN G.weight # {}
    /\ \E i \in 1..Len(organization_df.rows), j \in 1..Len(organization_df.rows) :
            /\ i # j
            /\ organization_df.rows[i] = organization_df.rows[j]
            /\ organization_df.rows[i].projectID \in RetainedProjects

(***************************************************************************)
(* C6: when no organization record matches the filters, or no project      *)
(* reaches min_participants, the call does not raise and the graph and     *)
(* the figure are empty.                                                   *)
(* Violated: on an empty df_org the min_participants mask drops the        *)
(* columns of collab_df and collab_df['name'] raises KeyError.             *)
(***************************************************************************)
AfterDeduplicate == df_org.columns = {"projectID", "name"}

C6_EmptyInputCompletes ==
    (AfterDeduplicate /\ organization_df.rows # <<>> /\ Qualifying = {}) =>
        /\ pc # "raised"
        /\ GraphBuilt => G.nodes = <<>> /\ DOMAIN G.weight = {}
        /\ pc = "done" => fig.shown /\ fig.nodes = <<>> /\ fig.edges = {}

(***************************************************************************)
(* C7: the filters are a conjunction: the filter engine ends with the      *)
(* project rows and the organization rows that satisfy every given         *)
(* predicate, and with any two filters exchanged in the order of           *)
(* application it ends with the same tables.                               *)
(* Violated: astype(float) converts every row that is left, so the         *)
(* contribution filter raises ValueError when it runs before the filter    *)
(* that drops the unparseable row; an apply() mask on an emptied df_proj   *)
(* drops its columns, so project_type raises KeyError after the filter     *)
(* that empties it.                                                        *)
(***************************************************************************)
CodeOrder == <<"field_filter", "org_types", "countries", "disciplines", "year",
               "contribution", "project_type">>

FilterByName(f, a, types, st) ==
    CASE f = "field_filter" -> FilterField(a.field_filter, st)
      [] f = "org_types" -> FilterOrgTypes(types, st)
      [] f = "countries" -> FilterCountries(a.countries, st)
      [] f = "disciplines" -> FilterDisciplines(a.disciplines, st)
      [] f = "year" -> FilterYear(a.year, st)
      [] f = "contribution" -> FilterContribution(a.contribution, st)
      [] OTHER -> FilterProjectType(a.project_type, st)

RECURSIVE ApplyInOrder(_, _, _, _)
ApplyInOrder(order, a, types, st) ==
    IF order = <<>> THEN st
    ELSE ApplyInOrder(Tail(order), a, types, FilterByName(order[1], a, types, st))

Swap(order, i, j) ==
    [k \in 1..Len(order) |-> IF k = i THEN order[j] ELSE IF k = j THEN order[i] ELSE order[k]]

\* the predicates on a project row
ProjectPredicates(r) ==
    /\ Truthy(args.field_filter) =>
          r.sci_voc_titles.t = "str" /\ Contains(args.field_filter.v, r.sci_voc_titles.s)
    /\ Truthy(args.project_type) =>
          /\ r.fundingScheme.t = "str"
          /\ \A i \in 1..Len(args.project_type.v) :
                Contains(args.project_type.v[i], r.fundingScheme.s)

MatchingProjects ==
    {project_df.rows[i].projectID :
        i \in {j \in 1..Len(project_df.rows) : ProjectPredicates(project_df.rows[j])}}

\* the predicates on an organization row
OrganizationPredicates(r) ==
    /\ (Truthy(args.field_filter) \/ Truthy(args.project_type)) =>
          r.projectID \in MatchingProjects
    /\ org_types # <<>> => IsIn(AsStr(r.activityType), org_types)
    /\ Truthy(args.countries) => IsIn(AsStr(r.country), args.countries.v)
    /\ Truthy(args.disciplines) =>
          \A i \in 1..Len(args.disciplines.v) :
              Contains(args.disciplines.v[i], AsStr(r.discipline))
    /\ Truthy(args.year) => Contains(args.year.v, AsStr(r.startDate))
    /\ TruthyNumber(args.contribution) =>
          Parseable(r.contribution) /\ GreaterEq(AsFloat(r.contribution), args.contribution.v)

C7_ConjunctiveFilters ==
    pc = "drop_duplicates" =>
        /\ df_proj.rows = SelectSeq(project_df.rows, ProjectPredicates)
        /\ df_org.rows = SelectSeq(organization_df.rows, OrganizationPredicates)
        /\ \A i \in 1..Len(CodeOrder), j \in 1..Len(CodeOrder) :
              i < j =>
                  LET r == ApplyInOrder(Swap(CodeOrder, i, j), args, org_types,
                                        Frames(project_df, organization_df))
                  IN /\ r.exc = "none"
                     /\ r.proj.rows = df_proj.rows
                     /\ r.org.rows = df_org.rows

(***************************************************************************)
(* C8: after drop_duplicates every (projectID, name) pair of the filtered  *)
(* rows is in df_org exactly once, and deduplicating again changes         *)
(* nothing.                                                                *)
(***************************************************************************)
C8_UniquePairs ==
    Deduplicated =>
        /\ \A pr \in {PairOf(organization_df.rows[i]) : i \in 1..Len(organization_df.rows)} :
              Cardinality({i \in 1..Len(df_org.rows) : df_org.rows[i] = pr}) = 1
        /\ SeqToSet(df_org.rows) =
              {PairOf(organization_df.rows[i]) : i \in 1..Len(organization_df.rows)}
        /\ DropDuplicates(df_org.rows) = df_org.rows

C8_Witness ==
    /\ pc = "groupby"
    /\ Len(df_org.rows) = 2
    /\ Len(organization_df.rows) = 4

(***************************************************************************)
(* C9: a call with min_participants < 2 or max_projects <= 0 ends in a     *)
(* validation error before any table is filtered.                          *)
(* Violated: the arguments are not validated.                              *)
(***************************************************************************)
C9_ConfigErrorsFailFast ==
    (args.min_participants < 2 \/ args.max_projects <= 0) =>
        \/ pc = "start"
        \/ pc = "raised" /\ exc = "ValueError" /\ df_org = Unbound /\ df_proj = Unbound

(***************************************************************************)
(* C10: a malformed cell never makes the call raise: the row is excluded   *)
(* by the active filter that reads it.                                     *)
(* Violated: astype(float) raises ValueError on an unparseable cell.       *)
(***************************************************************************)
Malformed(r) ==
    \/ Truthy(args.disciplines) /\ r.discipline.t # "str"
    \/ Truthy(args.year) /\ r.startDate.t # "str"
    \/ TruthyNumber(args.contribution) /\ ~Parseable(r.contribution)

C10_CoercionNeverRaises ==
    /\ exc # "ValueError"
    /\ pc = "drop_duplicates" =>
          /\ \A i \in 1..Len(df_org.rows) : ~Malformed(df_org.rows[i])
          /\ Truthy(args.project_type) =>
                \A i \in 1..Len(df_proj.rows) : df_proj.rows[i].fundingScheme.t = "str"

(***************************************************************************)
(* C11: a call on a table that lacks a column the call reads ends in       *)
(* KeyError at the step that reads it: it never groups, builds a graph or  *)
(* shows a figure.  The columns read are projectID and name of the         *)
(* organization table, and the columns of the filters that are given.      *)
(***************************************************************************)
\* the project columns the given filters read
ReadsProject(a) ==
    (IF Truthy(a.field_filter) THEN {"sci_voc_titles", "projectID"} ELSE {})
    \cup (IF Truthy(a.project_type) THEN {"fundingScheme", "projectID"} ELSE {})

\* the organization columns the given filters read
FilterReadsOrganization(a) ==
    (IF Truthy(a.field_filter) \/ Truthy(a.project_type) THEN {"projectID"} ELSE {})
    \cup (IF ~a.org_types.some \/ Truthy(a.org_types) THEN {"activityType"} ELSE {})
    \cup (IF Truthy(a.countries) THEN {"country"} ELSE {})
    \cup (IF Truthy(a.disciplines) THEN {"discipline"} ELSE {})
    \cup (IF Truthy(a.year) THEN {"startDate"} ELSE {})
    \cup (IF TruthyNumber(a.contribution) THEN {"contribution"} ELSE {})

\* the organization columns the call reads
ReadsOrganization(a) == {"projectID", "name"} \cup FilterReadsOrganization(a)

ReadColumnMissing ==
    \/ ~(ReadsProject(args) \subseteq project_df.columns)
    \/ ~(ReadsOrganization(args) \subseteq organization_df.columns)

C11_ReadColumnMissingRaises ==
    ReadColumnMissing =>
        /\ ~Deduplicated
        /\ pc # "raised" => exc = "none"
        /\ pc = "raised" => exc = "KeyError"
        /\ pc = "drop_duplicates" =>
              /\ ReadsProject(args) \subseteq project_df.columns
              /\ FilterReadsOrganization(args) \subseteq organization_df.columns
        /\ fig = NoFigure /\ ret = "pending"

C11_Witness ==
    /\ pc = "raised"
    /\ exc = "KeyError"
    /\ "country" \notin organization_df.columns
    /\ Truthy(args.countries)
    /\ df_org.rows # <<>>

\* C11 as stated: any absent column of the column notes makes the call fail,
\* whether or not the filter that reads it is given
C11_AnyMissingColumnFails ==
    (project_df.columns # ProjColumns \/ organization_df.columns # OrgColumns) =>
        /\ ~Deduplicated
        /\ pc = "raised" => exc = "KeyError"
        /\ fig = NoFigure /\ ret = "pending"

(***************************************************************************)
(* C12: with a threshold t given as contribution, the organization rows    *)
(* left by the filter engine are the rows that match the other filters     *)
(* and whose contribution is a number >= t.                                *)
(* Violated: `if contribution:` takes the threshold 0 as no threshold, so  *)
(* rows whose contribution is not a number >= 0 are left.                  *)
(***************************************************************************)
\* the predicates of the other filters on an organization row
OtherPredicates(r) ==
    /\ (Truthy(args.field_filter) \/ Truthy(args.project_type)) =>
          r.projectID \in MatchingProjects
    /\ org_types # <<>> => IsIn(AsStr(r.activityType), org_types)
    /\ Truthy(args.countries) => IsIn(AsStr(r.country), args.countries.v)
    /\ Truthy(args.disciplines) =>
          \A i \in 1..Len(args.disciplines.v) :
              Contains(args.disciplines.v[i], AsStr(r.discipline))
    /\ Truthy(args.year) => Contains(args.year.v, AsStr(r.startDate))

ContributionAtLeast(r) ==
    Parseable(r.contribution) /\ GreaterEq(AsFloat(r.contribution), args.contribution.v)

OtherwiseMatchingAtLeast(r) == OtherPredicates(r) /\ ContributionAtLeast(r)

C12_ContributionThreshold ==
    (pc = "drop_duplicates" /\ args.contribution.some) =>
        df_org.rows = SelectSeq(organization_df.rows, OtherwiseMatchingAtLeast)

(***************************************************************************)
(* C13: with disciplines = [d1..dn] every organization row the filter      *)
(* engine leaves has a discipline text that contains every di; a row       *)
(* whose discipline is missing is left for no di.                          *)
(* Violated: astype(str) turns a missing discipline into the text 'nan'    *)
(* before str.contains, so the row is left for every di that occurs in     *)
(* 'nan'.                                                                  *)
(***************************************************************************)
ContainsEveryDiscipline(r) ==
    /\ r.discipline.t = "str"
    /\ \A i \in 1..Len(args.disciplines.v) :
          Contains(args.disciplines.v[i], r.discipline.s)

C13_DisciplineConjunction ==
    (pc = "drop_duplicates" /\ Truthy(args.disciplines)) =>
        \A i \in 1..Len(df_org.rows) : ContainsEveryDiscipline(df_org.rows[i])

(***************************************************************************)
(* C14: with project_type = [c1..cn] the project rows the filter engine    *)
(* leaves are the rows whose fundingScheme is a text that contains every   *)
(* ci (and that pass field_filter), and every organization row it leaves   *)
(* belongs to one of those projects.                                       *)
(***************************************************************************)
ContainsEveryProjectType(r) ==
    /\ r.fundingScheme.t = "str"
    /\ \A i \in 1..Len(args.project_type.v) :
          Contains(args.project_type.v[i], r.fundingScheme.s)

C14_ProjectTypeConjunction ==
    (pc = "drop_duplicates" /\ Truthy(args.project_type)) =>
        /\ \A i \in 1..Len(df_proj.rows) : ContainsEveryProjectType(df_proj.rows[i])
        /\ df_proj.rows = SelectSeq(project_df.rows, ProjectPredicates)
        /\ \A i \in 1..Len(df_org.rows) : df_org.rows[i].projectID \in Unique(df_proj)
        /\ \A i \in 1..Len(organization_df.rows) :
              organization_df.rows[i].projectID \notin Unique(df_proj) =>
                  \A j \in 1..Len(df_org.rows) : df_org.rows[j] # organization_df.rows[i]

\* project 1 contains the first value only and is dropped with its
\* organization row; project 2 contains both and is kept
C14_Witness ==
    /\ pc = "drop_duplicates"
    /\ Truthy(args.project_type)
    /\ Len(project_df.rows) = 2
    /\ project_df.rows[1].fundingScheme = Str(ERC)
    /\ Contains(args.project_type.v[1], ERC)
    /\ df_proj.rows = <<ProjRow(2)>>
    /\ organization_df.rows # <<>>
    /\ df_org.rows = <<>>

(***************************************************************************)
(* C15: the effective org_types is the argument, or the list HES, REC,     *)
(* PUB, PRC, SME when the argument is not given, and every organization    *)
(* row the filter engine leaves has an activityType in the effective       *)
(* list.                                                                   *)
(* Violated: `if org_types:` is false for the empty list, so with          *)
(* org_types = [] no row is filtered out.                                  *)
(***************************************************************************)
EffectiveOrgTypes ==
    IF args.org_types.some THEN args.org_types.v ELSE DefaultOrgTypes

C15_OrgTypeMembership ==
    pc = "drop_duplicates" =>
        /\ org_types = EffectiveOrgTypes
        /\ \A i \in 1..Len(df_org.rows) :
              IsIn(AsStr(df_org.rows[i].activityType), EffectiveOrgTypes)

(***************************************************************************)
(* C16: the nodes of the graph are exactly the institution names listed    *)
(* by at least one project of collab_df.                                   *)
(* Violated: nodes enter the graph through add_edge only, so the single    *)
(* institution of a project retained under min_participants = 1 is not a   *)
(* node.                                                                   *)
(***************************************************************************)
RetainedParticipants ==
    UNION {SeqToSet(collab_df.rows[i].name) : i \in 1..Len(collab_df.rows)}

C16_NodeSet ==
    GraphBuilt =>
        /\ SeqToSet(G.nodes) = RetainedParticipants
        /\ pc = "done" => SeqToSet(fig.nodes) = RetainedParticipants

(***************************************************************************)
(* C17: no step of a call writes the project or the organization snapshot  *)
(* table, and of two calls with different configurations whose steps       *)
(* interleave on the same snapshot each ends as it ends when it runs       *)
(* alone: with the same exception, or with the same graph.                 *)
(***************************************************************************)
\* the call run alone, as one function of the snapshot and the arguments
OutcomeAlone(p, o, a) ==
    LET types == IF a.org_types.some THEN a.org_types.v ELSE DefaultOrgTypes
        st == ApplyInOrder(CodeOrder, a, types, Frames(p, o))
        grouped == DataFrame({"projectID", "name"},
                             GroupBy(DropDuplicates(ProjectPairs(st.org.rows))))
        cut == ApplyMask(grouped,
                   [k \in 1..Len(grouped.rows) |->
                       Len(grouped.rows[k].name) >= a.min_participants])
    IN IF st.exc # "none" THEN [exc |-> st.exc, G |-> EmptyGraph]
       ELSE IF ~({"projectID", "name"} \subseteq st.org.columns) \/ ~HasColumn(cut, "name")
       THEN [exc |-> "KeyError", G |-> EmptyGraph]
       ELSE [exc |-> "none",
             G |-> BuildGraph(Counter(EdgeList(HeadRows(cut.rows, a.max_projects))))]

EndsAsAlone(call) ==
    call.pc \in {"done", "raised"} =>
        [exc |-> call.exc, G |-> call.G] =
            OutcomeAlone(project_df, organization_df, call.args)

C17_SnapshotReadOnly ==
    /\ [][project_df' = project_df /\ organization_df' = organization_df]_vars
    /\ [](EndsAsAlone(Running) /\ EndsAsAlone(suspended))

\* one call has ended with a graph while the other, with another
\* configuration, is in the middle of its steps
C17_Witness ==
    /\ pc = "done"
    /\ DOMAIN G.weight # {}
    /\ suspended.pc = "min_participants"
    /\ suspended.args # args
    /\ suspended.df_org.rows # df_org.rows

(***************************************************************************)
(* C18: a call that does not raise returns the figure it assembled, also   *)
(* when the graph is empty.                                                *)
(* Violated: the body ends with fig.show() and has no return statement,    *)
(* so the caller receives None.                                            *)
(***************************************************************************)
C18_ReturnsFigure ==
    pc = "done" => fig.shown /\ ret = "figure"

(***************************************************************************)
(* C19: head(max_projects) follows the min_participants cut: the projects  *)
(* that go into edge generation all reach min_participants, and for        *)
(* max_projects > 0 they are the first min(max_projects, q) of the q       *)
(* qualifying projects.                                                    *)
(***************************************************************************)
Min(a, b) == IF a <= b THEN a ELSE b

C19_CapAfterCut ==
    (pc = "edge_list" /\ args.max_projects > 0) =>
        /\ RetainedProjects \subseteq Qualifying
        /\ Len(collab_df.rows) = Min(args.max_projects, Cardinality(Qualifying))
        /\ Cardinality(RetainedProjects) = Len(collab_df.rows)
        /\ \A p \in RetainedProjects, q \in Qualifying \ RetainedProjects : p < q

\* project 1 misses min_participants and project 2 takes the only slot
C19_Witness ==
    /\ pc = "edge_list"
    /\ args.max_projects = 1
    /\ GroupedProjects = {1, 2}
    /\ Qualifying = {2}
    /\ RetainedProjects = {2}

====
